---- MODULE Spec2Model ----
(***************************************************************************)
(* Occupancy-grid path planning: the Costmap grid store and the three      *)
(* planners (A*, Dijkstra, RRT) of src/planner/planners.py, one action per *)
(* loop iteration of each plan() call.                                     *)
(*                                                                         *)
(* A node is the pair <<x, y>>; the code's grid[y][x] is grid[<<x, y>>].   *)
(* Python's None (no start, no goal, the root's parent, "no path") is the  *)
(* empty tuple: a node has two components and a returned path at least one *)
(* node, so no node and no path equals it.                                 *)
(***************************************************************************)
EXTENDS Integers, Sequences, FiniteSets, TLC

(* Cell states, with the byte values src/costmap/costmap.py documents. *)
FREE == 255
OBSTACLE == 0
UNKNOWN == 128
VISITED == 254
START == 200
GOAL == 50

(* Bounds of the model. *)
MaxWidth == 3
MaxHeight == 2
MaxCells == 6
MaxStepSize == 2
MaxIter == 2
MaxAttempts == 2
MaxApiCells == 3
MaxOutside == 1
MaxOps == 3
MaxCalls == 2
CorridorHeight == 5
MaxCorridorObstacles == 2
MaxDragToggles == 2
MaxBuilderCells == 2

None == <<>>

(* No Costmap operation was called yet. *)
NoOp == [op |-> "none", x |-> 0, y |-> 0, ret |-> "None"]

VARIABLES
  costmap,     \* Costmap: [width, height, grid, start, goal]
  planner,     \* the planner object plan() is called on: "AStar", "Dijkstra", "RRT"
  step_size,   \* RRTPlanner.step_size
  start,       \* the argument start of the plan() call
  goal,        \* the argument goal of the plan() call
  pc,          \* "idle", "astar", "dijkstra", "rrt", "a_star", "done" (returned),
               \* "hang"; "ready": no call is running; "called": a Costmap
               \* operation has returned
  open_set,    \* the heap, a set of <<priority, node>> (no entry is pushed twice)
  came_from,   \* predecessor dict of A* / Dijkstra
  gscore,      \* gscore of A*, dist of Dijkstra
  tree,        \* RRT: node -> parent or None
  tree_keys,   \* RRT: the keys of tree in insertion order (dict order)
  attempt,     \* RRT: index of the outer loop
  iter,        \* RRT: index of the inner loop
  result,      \* the value plan() returned (None: no path)
  grid0,       \* the grid when plan() was called
  closed_set,  \* Planner.a_star: the nodes already expanded
  map_file,    \* the raster in the map file: [readable, width, height, px]
  history,     \* the earlier plan() calls of the session: [grid0, start, goal,
               \* result]
  last,        \* the last Costmap operation: [op, x, y, ret], ret the value
               \* returned as Python prints it, or "IndexError" when raised
  before,      \* the costmap when that operation was called
  mode,        \* PathVisualizer.mode: the marker a click sets, "start" or "goal"
  mouse_pressed,       \* CostmapBuilder.mouse_pressed
  current_drag_cells,  \* CostmapBuilder.current_drag_cells
  drag_toggles \* cell -> the toggle_obstacle calls the builder made on it since
               \* the button press that began the current (or the last) drag

vars == <<costmap, planner, step_size, start, goal, pc, open_set, came_from,
          gscore, tree, tree_keys, attempt, iter, result, grid0,
          closed_set, map_file, history, last, before, mode,
          mouse_pressed, current_drag_cells, drag_toggles>>

----------------------------------------------------------------------------
(* Costmap *)

Cells(w, h) == (0 .. w - 1) \X (0 .. h - 1)

NewCostmap(w, h) ==
  [width |-> w, height |-> h, grid |-> [c \in Cells(w, h) |-> UNKNOWN],
   start |-> None, goal |-> None]

(* grid[y][x] = v *)
SetCell(grid, c, v) == [k \in DOMAIN grid |-> IF k = c THEN v ELSE grid[k]]

IsWithinBounds(cm, x, y) == 0 <= x /\ x < cm.width /\ 0 <= y /\ y < cm.height

IsFree(cm, x, y) == cm.grid[<<x, y>>] # OBSTACLE

(* Mutant: toggle_obstacle of src/costmap.py, which turns every cell that  *)
(* is not an obstacle into one.                                            *)
ToggleObstacleAnyCell(cm, x, y) ==
  IF IsWithinBounds(cm, x, y)
  THEN IF cm.grid[<<x, y>>] = OBSTACLE
       THEN [cm EXCEPT !.grid = SetCell(cm.grid, <<x, y>>, UNKNOWN)]
       ELSE [cm EXCEPT !.grid = SetCell(cm.grid, <<x, y>>, OBSTACLE)]
  ELSE cm

ToggleObstacle(cm, x, y) ==
  IF IsWithinBounds(cm, x, y)
  THEN LET val == cm.grid[<<x, y>>]
       IN  IF val = OBSTACLE
           THEN [cm EXCEPT !.grid = SetCell(cm.grid, <<x, y>>, UNKNOWN)]
           ELSE IF val = UNKNOWN
                THEN [cm EXCEPT !.grid = SetCell(cm.grid, <<x, y>>, OBSTACLE)]
                ELSE cm
  ELSE cm

(* Mutant: the is_free test is left out. *)
SetStartOnObstacle(cm, x, y) ==
  IF IsWithinBounds(cm, x, y)
  THEN LET cleared == IF cm.start # None /\ cm.grid[cm.start] = START
                      THEN SetCell(cm.grid, cm.start, UNKNOWN)
                      ELSE cm.grid
       IN  [cm EXCEPT !.start = <<x, y>>,
                      !.grid = SetCell(cleared, <<x, y>>, START)]
  ELSE cm

(* Mutant: the cell of the previous start is left as it is. *)
SetStartKeepsOld(cm, x, y) ==
  IF IsWithinBounds(cm, x, y) /\ IsFree(cm, x, y)
  THEN [cm EXCEPT !.start = <<x, y>>,
                  !.grid = SetCell(cm.grid, <<x, y>>, START)]
  ELSE cm

SetStart(cm, x, y) ==
  IF IsWithinBounds(cm, x, y) /\ IsFree(cm, x, y)
  THEN LET cleared == IF cm.start # None /\ cm.grid[cm.start] = START
                      THEN SetCell(cm.grid, cm.start, UNKNOWN)
                      ELSE cm.grid
       IN  [cm EXCEPT !.start = <<x, y>>,
                      !.grid = SetCell(cleared, <<x, y>>, START)]
  ELSE cm

SetGoal(cm, x, y) ==
  IF IsWithinBounds(cm, x, y) /\ IsFree(cm, x, y)
  THEN LET cleared == IF cm.goal # None /\ cm.grid[cm.goal] = GOAL
                      THEN SetCell(cm.grid, cm.goal, UNKNOWN)
                      ELSE cm.grid
       IN  [cm EXCEPT !.goal = <<x, y>>,
                      !.grid = SetCell(cleared, <<x, y>>, GOAL)]
  ELSE cm

Bool(b) == IF b THEN "True" ELSE "False"

Reset(cm) ==
  [cm EXCEPT !.grid = [c \in DOMAIN cm.grid |-> UNKNOWN],
             !.start = None, !.goal = None]

(* An index i into a numpy axis of length n: a negative index counts from  *)
(* the end, and an index outside -n .. n - 1 raises IndexError (here -1).  *)
AxisIndex(i, n) ==
  IF 0 <= i /\ i < n THEN i
  ELSE IF -n <= i /\ i < 0 THEN i + n
  ELSE -1

(* is_free(x, y) called on any coordinate: self.grid[y][x] != OBSTACLE.    *)
IsFreeCall(cm, x, y) ==
  LET xi == AxisIndex(x, cm.width)
      yi == AxisIndex(y, cm.height)
  IN  IF yi < 0 \/ xi < 0 THEN "IndexError"
      ELSE Bool(cm.grid[<<xi, yi>>] # OBSTACLE)

(* A map file imageio cannot read, or whose image is not a 2D array: the  *)
(* exception is caught in load_map.                                       *)
NoFile == [readable |-> FALSE, width |-> 0, height |-> 0, px |-> <<>>]

Min(a, b) == IF a < b THEN a ELSE b

LoadMap(cm, file) ==
  IF ~file.readable THEN cm
  ELSE LET min_h == Min(file.height, cm.height)
           min_w == Min(file.width, cm.width)
       IN  [cm EXCEPT !.grid =
              [c \in DOMAIN cm.grid |->
                 IF c[1] < min_w /\ c[2] < min_h THEN file.px[c] ELSE cm.grid[c]]]

ResetPath(cm, file) ==
  LET old_start == cm.start
      old_goal == cm.goal
      loaded == LoadMap(cm, file)
      cm1 == IF old_start = None THEN loaded
             ELSE IF IsWithinBounds(loaded, old_start[1], old_start[2])
                     /\ IsFree(loaded, old_start[1], old_start[2])
                  THEN SetStart(loaded, old_start[1], old_start[2])
                  ELSE [loaded EXCEPT !.start = None]
  IN  IF old_goal = None THEN cm1
      ELSE IF IsWithinBounds(cm1, old_goal[1], old_goal[2])
              /\ IsFree(cm1, old_goal[1], old_goal[2])
           THEN SetGoal(cm1, old_goal[1], old_goal[2])
           ELSE [cm1 EXCEPT !.goal = None]

RECURSIVE ToggleAll(_, _)
ToggleAll(cm, cells) ==
  IF cells = {} THEN cm
  ELSE LET c == CHOOSE c \in cells : TRUE
       IN  ToggleAll(ToggleObstacle(cm, c[1], c[2]), cells \ {c})

----------------------------------------------------------------------------
(* Helpers shared by the planners' dicts and heaps *)

Put(d, k, v) == (k :> v) @@ d

(* heapq orders the entries (priority, (x, y)) as Python orders tuples. *)
HeapLess(a, b) ==
  \/ a[1] < b[1]
  \/ /\ a[1] = b[1]
     /\ \/ a[2][1] < b[2][1]
        \/ a[2][1] = b[2][1] /\ a[2][2] < b[2][2]

HeapTop(h) == CHOOSE e \in h : \A o \in h \ {e} : HeapLess(e, o)

(* Mutant: the last direction is a diagonal step. *)
DirsDiagonal == << <<-1, 0>>, <<1, 0>>, <<0, -1>>, <<1, 1>> >>

Dirs == << <<-1, 0>>, <<1, 0>>, <<0, -1>>, <<0, 1>> >>

Abs(i) == IF i < 0 THEN -i ELSE i

(* The walk "while current in came_from" can only end at a node without an *)
(* entry; it ends iff it gets there within as many steps as there are      *)
(* entries.                                                                *)
RECURSIVE CameFromEnds(_, _, _)
CameFromEnds(cf, current, fuel) ==
  IF current \notin DOMAIN cf THEN TRUE
  ELSE IF fuel = 0 THEN FALSE
  ELSE CameFromEnds(cf, cf[current], fuel - 1)

RECURSIVE CameFromWalk(_, _)
CameFromWalk(cf, current) ==
  IF current \notin DOMAIN cf THEN <<current>>
  ELSE CameFromWalk(cf, cf[current]) \o <<current>>

----------------------------------------------------------------------------
(* AStarPlanner *)

(* Mutant: the Manhattan distance with its sign flipped. *)
HeuristicNegated(a, b) == 0 - (Abs(a[1] - b[1]) + Abs(a[2] - b[2]))

Heuristic(a, b) == Abs(a[1] - b[1]) + Abs(a[2] - b[2])

(* Mutant: the direction (0, 1) is left out. *)
AStarGetNeighborsThreeDirs(cm, node) ==
  LET cand == [i \in 1 .. 3 |-> <<node[1] + Dirs[i][1], node[2] + Dirs[i][2]>>]
      Valid(n) == /\ 0 <= n[1] /\ n[1] < cm.width /\ 0 <= n[2] /\ n[2] < cm.height
                  /\ cm.grid[n] # OBSTACLE
  IN  SelectSeq(cand, Valid)

(* Mutant: the obstacle test is left out. *)
AStarGetNeighborsInBounds(cm, node) ==
  LET cand == [i \in 1 .. 4 |-> <<node[1] + Dirs[i][1], node[2] + Dirs[i][2]>>]
      Valid(n) == 0 <= n[1] /\ n[1] < cm.width /\ 0 <= n[2] /\ n[2] < cm.height
  IN  SelectSeq(cand, Valid)

(* Mutant: a cell marked VISITED or FREE by an earlier search is not a      *)
(* neighbour.                                                              *)
AStarGetNeighborsUnmarked(cm, node) ==
  LET cand == [i \in 1 .. 4 |-> <<node[1] + Dirs[i][1], node[2] + Dirs[i][2]>>]
      Valid(n) == /\ 0 <= n[1] /\ n[1] < cm.width /\ 0 <= n[2] /\ n[2] < cm.height
                  /\ cm.grid[n] \notin {OBSTACLE, VISITED, FREE}
  IN  SelectSeq(cand, Valid)

AStarGetNeighbors(cm, node) ==
  LET cand == [i \in 1 .. 4 |-> <<node[1] + Dirs[i][1], node[2] + Dirs[i][2]>>]
      Valid(n) == /\ 0 <= n[1] /\ n[1] < cm.width /\ 0 <= n[2] /\ n[2] < cm.height
                  /\ cm.grid[n] # OBSTACLE
  IN  SelectSeq(cand, Valid)

(* The loop over the neighbours of current; st = [came_from, gscore, open_set]. *)
RECURSIVE AStarRelax(_, _, _, _)
AStarRelax(nbrs, current, g, st) ==
  IF nbrs = <<>> THEN st
  ELSE LET nbr == Head(nbrs)
           tentative_g == st.gscore[current] + 1
       IN  AStarRelax(Tail(nbrs), current, g,
             IF nbr \notin DOMAIN st.gscore \/ tentative_g < st.gscore[nbr]
             THEN [came_from |-> Put(st.came_from, nbr, current),
                   gscore |-> Put(st.gscore, nbr, tentative_g),
                   open_set |-> st.open_set \cup
                                  {<<tentative_g + Heuristic(nbr, g), nbr>>}]
             ELSE st)

(* Mutant: path.reverse() is left out. *)
RECURSIVE AStarReconstructPathUnreversed(_, _)
AStarReconstructPathUnreversed(cf, current) ==
  IF current \notin DOMAIN cf THEN <<current>>
  ELSE <<current>> \o AStarReconstructPathUnreversed(cf, cf[current])

AStarReconstructPath(cf, current) == CameFromWalk(cf, current)

(* A cell the search marks: VISITED unless it holds START or GOAL. *)
MarkVisited(grid, node) ==
  IF grid[node] \notin {START, GOAL} THEN SetCell(grid, node, VISITED) ELSE grid

----------------------------------------------------------------------------
(* DijkstraPlanner *)

(* Mutant: the obstacle test is left out. *)
DijkstraGetNeighborsInBounds(cm, node) ==
  LET cand == [i \in 1 .. 4 |-> <<node[1] + Dirs[i][1], node[2] + Dirs[i][2]>>]
      Valid(n) == 0 <= n[1] /\ n[1] < cm.width /\ 0 <= n[2] /\ n[2] < cm.height
  IN  SelectSeq(cand, Valid)

(* Mutant: a cell marked FREE as part of an earlier path is not a neighbour. *)
DijkstraGetNeighborsUnmarked(cm, node) ==
  LET cand == [i \in 1 .. 4 |-> <<node[1] + Dirs[i][1], node[2] + Dirs[i][2]>>]
      Valid(n) == /\ 0 <= n[1] /\ n[1] < cm.width /\ 0 <= n[2] /\ n[2] < cm.height
                  /\ cm.grid[n] \notin {OBSTACLE, FREE}
  IN  SelectSeq(cand, Valid)

DijkstraGetNeighbors(cm, node) ==
  LET cand == [i \in 1 .. 4 |-> <<node[1] + Dirs[i][1], node[2] + Dirs[i][2]>>]
      Valid(n) == /\ 0 <= n[1] /\ n[1] < cm.width /\ 0 <= n[2] /\ n[2] < cm.height
                  /\ cm.grid[n] # OBSTACLE
  IN  SelectSeq(cand, Valid)

(* Mutant: the priority pushed is -cost. *)
RECURSIVE DijkstraRelaxNegated(_, _, _)
DijkstraRelaxNegated(nbrs, current, st) ==
  IF nbrs = <<>> THEN st
  ELSE LET nbr == Head(nbrs)
           cost == st.gscore[current] + 1
       IN  DijkstraRelaxNegated(Tail(nbrs), current,
             IF nbr \notin DOMAIN st.gscore \/ cost < st.gscore[nbr]
             THEN [came_from |-> Put(st.came_from, nbr, current),
                   gscore |-> Put(st.gscore, nbr, cost),
                   open_set |-> st.open_set \cup {<<-cost, nbr>>}]
             ELSE st)

RECURSIVE DijkstraRelax(_, _, _)
DijkstraRelax(nbrs, current, st) ==
  IF nbrs = <<>> THEN st
  ELSE LET nbr == Head(nbrs)
           cost == st.gscore[current] + 1
       IN  DijkstraRelax(Tail(nbrs), current,
             IF nbr \notin DOMAIN st.gscore \/ cost < st.gscore[nbr]
             THEN [came_from |-> Put(st.came_from, nbr, current),
                   gscore |-> Put(st.gscore, nbr, cost),
                   open_set |-> st.open_set \cup {<<cost, nbr>>}]
             ELSE st)

DijkstraReconstructPath(cf, current) == CameFromWalk(cf, current)

(* The grid DijkstraPlanner.plan leaves: the loop "while open_set" run from *)
(* the state st = [came_from, gscore, open_set] on the costmap cm until the *)
(* goal is popped or the heap is empty.                                     *)
RECURSIVE DijkstraLoop(_, _, _)
DijkstraLoop(cm, g, st) ==
  IF st.open_set = {} THEN cm.grid
  ELSE LET top == HeapTop(st.open_set)
           current == top[2]
           popped == st.open_set \ {top}
       IN  IF current = g THEN cm.grid
           ELSE LET cm1 == [cm EXCEPT !.grid = MarkVisited(cm.grid, current)]
                IN  DijkstraLoop(cm1, g,
                      DijkstraRelax(DijkstraGetNeighbors(cm1, current), current,
                        [came_from |-> st.came_from, gscore |-> st.gscore,
                         open_set |-> popped]))

(* The grid after DijkstraPlanner(cm).plan(s, g). *)
DijkstraGrid(cm, s, g) ==
  DijkstraLoop(cm, g, [came_from |-> <<>>, gscore |-> (s :> 0),
                       open_set |-> {<<0, s>>}])

----------------------------------------------------------------------------
(* RRTPlanner *)

(* _distance is np.hypot; the code only compares distances, with each other *)
(* and with step_size, and the squares compare the same way.               *)
DistanceSq(a, b) == (a[1] - b[1]) * (a[1] - b[1]) + (a[2] - b[2]) * (a[2] - b[2])

(* min(nodes, key=distance): the first node, in dict order, at least distance. *)
Nearest(rand_node, nodes) ==
  LET i == CHOOSE i \in 1 .. Len(nodes) :
             /\ \A j \in 1 .. Len(nodes) :
                  DistanceSq(nodes[i], rand_node) <= DistanceSq(nodes[j], rand_node)
             /\ \A j \in 1 .. i - 1 :
                  DistanceSq(nodes[j], rand_node) > DistanceSq(nodes[i], rand_node)
  IN  nodes[i]

(* round((d / dist) * step_size) for dist = sqrt(distSq) > step_size: the  *)
(* number of k in 1..step_size with k - 1/2 <= |d| * step_size / dist,     *)
(* signed as d. No value is halfway between two integers (that needs       *)
(* dist * (2k - 1) = 2 * step_size * |d| with an integer dist, and halving *)
(* dx, dy and dist while dist is even leaves an odd number equal to an even *)
(* one), so Python's round-half-to-even never applies and                  *)
(* round(x1 + v) = x1 + round(v).                                          *)
RoundScaled(d, distSq, s) ==
  LET a == Abs(d)
      k == Cardinality({j \in 1 .. s :
                          (2 * j - 1) * (2 * j - 1) * distSq <= 4 * s * s * a * a})
  IN  IF d < 0 THEN -k ELSE k

Steer(from_node, to_node, s) ==
  LET dx == to_node[1] - from_node[1]
      dy == to_node[2] - from_node[2]
      distSq == DistanceSq(from_node, to_node)
  IN  IF distSq <= s * s THEN to_node
      ELSE <<from_node[1] + RoundScaled(dx, distSq, s),
             from_node[2] + RoundScaled(dy, distSq, s)>>

(* Mutant: only the bounds are tested. *)
RRTIsFreeBoundsOnly(cm, node) == IsWithinBounds(cm, node[1], node[2])

RRTIsFree(cm, node) ==
  IsWithinBounds(cm, node[1], node[2]) /\ IsFree(cm, node[1], node[2])

(* The walk "while tree[current] is not None" ends iff it reaches the root *)
(* sentinel within as many steps as the tree has entries.                  *)
RECURSIVE TreeEnds(_, _, _)
TreeEnds(t, current, fuel) ==
  IF t[current] = None THEN TRUE
  ELSE IF fuel = 0 THEN FALSE
  ELSE TreeEnds(t, t[current], fuel - 1)

RECURSIVE RRTReconstructPath(_, _)
RRTReconstructPath(t, current) ==
  IF t[current] = None THEN <<current>>
  ELSE RRTReconstructPath(t, t[current]) \o <<current>>

(* "Mark path on the costmap": every path cell not START/GOAL becomes FREE. *)
MarkPathFree(grid, path) ==
  [c \in DOMAIN grid |->
     IF (\E i \in 1 .. Len(path) : path[i] = c) /\ grid[c] \notin {START, GOAL}
     THEN FREE ELSE grid[c]]

(* Mutant: the cleanup is left out. *)
ResetVisitedOmitted(grid) == grid

(* The cleanup after a failed attempt. *)
ResetVisited(grid) ==
  [c \in DOMAIN grid |-> IF grid[c] = VISITED THEN UNKNOWN ELSE grid[c]]

(* Lines 221-227: re-mark the costmap's start and goal cells. *)
RRTMarkStartGoal(cm) ==
  LET g1 == IF cm.start # None THEN SetCell(cm.grid, cm.start, START) ELSE cm.grid
      g2 == IF cm.goal # None THEN SetCell(g1, cm.goal, GOAL) ELSE g1
  IN  [cm EXCEPT !.grid = g2]

----------------------------------------------------------------------------
(* The costmaps a plan() call is made on: a new Costmap, obstacles toggled *)
(* on, and start and goal either both unset or both set by set_start and   *)
(* set_goal, in either order.                                              *)

FreeCells(cm) == {c \in Cells(cm.width, cm.height) : cm.grid[c] # OBSTACLE}

WithMarkers(cm) ==
  {cm} \cup
  UNION {{SetGoal(SetStart(cm, s[1], s[2]), g[1], g[2]),
          SetStart(SetGoal(cm, g[1], g[2]), s[1], s[2])} :
           <<s, g>> \in FreeCells(cm) \X FreeCells(cm)}

InitCostmaps(w, h) ==
  UNION {WithMarkers(ToggleAll(NewCostmap(w, h), obs)) : obs \in SUBSET Cells(w, h)}

(* The 5x5 scenario: column x = 2 blocked for y = 0..3, (2,4) open. *)
ScenarioCostmap ==
  ToggleAll(NewCostmap(5, 5), {<<2, 0>>, <<2, 1>>, <<2, 2>>, <<2, 3>>})

ScenarioStart == <<0, 0>>
ScenarioGoal == <<4, 0>>

Planners == {"AStar", "Dijkstra", "RRT"}

(* The arguments of a plan() call: the costmap's start and goal when set    *)
(* (PathVisualizer.run_planner), else any two in-bounds non-obstacle cells. *)
PlanArgs(cm) ==
  IF cm.start # None /\ cm.goal # None
  THEN {<<cm.start, cm.goal>>}
  ELSE IF cm.start = None /\ cm.goal = None
       THEN FreeCells(cm) \X FreeCells(cm)
       ELSE {}

(* A costmap, a planner built on it and the arguments of the plan() call   *)
(* to come.                                                                *)
InitCall ==
  \/ \E w \in 1 .. MaxWidth, h \in 1 .. MaxHeight :
       /\ w * h <= MaxCells
       /\ costmap \in InitCostmaps(w, h)
       /\ \E a \in PlanArgs(costmap) : start = a[1] /\ goal = a[2]
  \/ /\ costmap \in {ScenarioCostmap,
                     SetGoal(SetStart(ScenarioCostmap, 0, 0), 4, 0)}
     /\ start = ScenarioStart
     /\ goal = ScenarioGoal

Init ==
  /\ InitCall
  /\ planner \in Planners
  /\ step_size \in IF planner = "RRT" THEN 1 .. MaxStepSize ELSE {0}
  /\ pc = "idle"
  /\ open_set = {}
  /\ came_from = <<>>
  /\ gscore = <<>>
  /\ tree = <<>>
  /\ tree_keys = <<>>
  /\ attempt = 0
  /\ iter = 0
  /\ result = None
  /\ grid0 = costmap.grid
  /\ closed_set = {}
  /\ map_file = NoFile
  /\ history = <<>>
  /\ last = NoOp
  /\ before = costmap
  /\ mode = "start"
  /\ mouse_pressed = FALSE
  /\ current_drag_cells = {}
  /\ drag_toggles = <<>>

BuilderUnused == UNCHANGED <<mouse_pressed, current_drag_cells, drag_toggles>>
SessionUnchanged ==
  /\ UNCHANGED <<closed_set, map_file, history, last, before, mode>>
  /\ BuilderUnused
SearchUnchanged ==
  /\ UNCHANGED <<planner, step_size, start, goal, grid0>>
  /\ SessionUnchanged
RRTUnused == UNCHANGED <<tree, tree_keys, attempt, iter>>
HeapUnused == UNCHANGED <<open_set, came_from, gscore>>

----------------------------------------------------------------------------
(* AStarPlanner.plan *)

AStarPlan ==
  /\ pc = "idle"
  /\ planner = "AStar"
  /\ gscore' = (start :> 0)
  /\ open_set' = {<<Heuristic(start, goal), start>>}
  /\ came_from' = <<>>
  /\ grid0' = costmap.grid
  /\ pc' = "astar"
  /\ RRTUnused
  /\ SessionUnchanged
  /\ UNCHANGED <<costmap, planner, step_size, start, goal, result>>

AStarStep ==
  /\ pc = "astar"
  /\ open_set # {}
  /\ LET top == HeapTop(open_set)
         current == top[2]
         popped == open_set \ {top}
     IN  IF current = goal
         THEN /\ open_set' = popped
              /\ IF CameFromEnds(came_from, current, Cardinality(DOMAIN came_from))
                 THEN /\ result' = AStarReconstructPath(came_from, current)
                      /\ pc' = "done"
                 ELSE /\ result' = result
                      /\ pc' = "hang"
              /\ UNCHANGED <<costmap, came_from, gscore>>
         ELSE LET cm == [costmap EXCEPT !.grid = MarkVisited(costmap.grid, current)]
                  st == AStarRelax(AStarGetNeighbors(cm, current), current, goal,
                          [came_from |-> came_from, gscore |-> gscore,
                           open_set |-> popped])
              IN  /\ costmap' = cm
                  /\ came_from' = st.came_from
                  /\ gscore' = st.gscore
                  /\ open_set' = st.open_set
                  /\ UNCHANGED <<pc, result>>
  /\ RRTUnused
  /\ SearchUnchanged

AStarExhausted ==
  /\ pc = "astar"
  /\ open_set = {}
  /\ result' = None
  /\ pc' = "done"
  /\ RRTUnused
  /\ SearchUnchanged
  /\ UNCHANGED <<costmap, open_set, came_from, gscore>>

----------------------------------------------------------------------------
(* DijkstraPlanner.plan *)

DijkstraPlan ==
  /\ pc = "idle"
  /\ planner = "Dijkstra"
  /\ gscore' = (start :> 0)
  /\ open_set' = {<<0, start>>}
  /\ came_from' = <<>>
  /\ grid0' = costmap.grid
  /\ pc' = "dijkstra"
  /\ RRTUnused
  /\ SessionUnchanged
  /\ UNCHANGED <<costmap, planner, step_size, start, goal, result>>

DijkstraStep ==
  /\ pc = "dijkstra"
  /\ open_set # {}
  /\ LET top == HeapTop(open_set)
         current == top[2]
         popped == open_set \ {top}
     IN  IF current = goal
         THEN /\ open_set' = popped
              /\ IF CameFromEnds(came_from, current, Cardinality(DOMAIN came_from))
                 THEN /\ result' = DijkstraReconstructPath(came_from, current)
                      /\ pc' = "done"
                 ELSE /\ result' = result
                      /\ pc' = "hang"
              /\ UNCHANGED <<costmap, came_from, gscore>>
         ELSE LET cm == [costmap EXCEPT !.grid = MarkVisited(costmap.grid, current)]
                  st == DijkstraRelax(DijkstraGetNeighbors(cm, current), current,
                          [came_from |-> came_from, gscore |-> gscore,
                           open_set |-> popped])
              IN  /\ costmap' = cm
                  /\ came_from' = st.came_from
                  /\ gscore' = st.gscore
                  /\ open_set' = st.open_set
                  /\ UNCHANGED <<pc, result>>
  /\ RRTUnused
  /\ SearchUnchanged

DijkstraExhausted ==
  /\ pc = "dijkstra"
  /\ open_set = {}
  /\ result' = None
  /\ pc' = "done"
  /\ RRTUnused
  /\ SearchUnchanged
  /\ UNCHANGED <<costmap, open_set, came_from, gscore>>

----------------------------------------------------------------------------
(* RRTPlanner.plan *)

RRTPlan ==
  /\ pc = "idle"
  /\ planner = "RRT"
  /\ tree' = (start :> None)
  /\ tree_keys' = <<start>>
  /\ grid0' = costmap.grid
  /\ costmap' = RRTMarkStartGoal(costmap)
  /\ attempt' = 0
  /\ iter' = 0
  /\ pc' = "rrt"
  /\ HeapUnused
  /\ SessionUnchanged
  /\ UNCHANGED <<planner, step_size, start, goal, result>>

(* One growth step; rand_node is the goal (goal bias) or _sample_node(), in *)
(* both cases some in-bounds cell.                                         *)
RRTIter ==
  /\ pc = "rrt"
  /\ iter < MaxIter
  /\ \E rand_node \in Cells(costmap.width, costmap.height) :
       LET nearest_node == Nearest(rand_node, tree_keys)
           new_node == Steer(nearest_node, rand_node, step_size)
       IN  IF RRTIsFree(costmap, new_node)
           THEN LET tree1 == Put(tree, new_node, nearest_node)
                    keys1 == IF new_node \in DOMAIN tree THEN tree_keys
                             ELSE Append(tree_keys, new_node)
                    grid1 == MarkVisited(costmap.grid, new_node)
                IN  IF DistanceSq(new_node, goal) <= step_size * step_size
                    THEN LET tree2 == Put(tree1, goal, new_node)
                             keys2 == IF goal \in DOMAIN tree1 THEN keys1
                                      ELSE Append(keys1, goal)
                         IN  /\ tree' = tree2
                             /\ tree_keys' = keys2
                             /\ iter' = iter
                             /\ IF TreeEnds(tree2, goal, Cardinality(DOMAIN tree2))
                                THEN LET path == RRTReconstructPath(tree2, goal)
                                     IN  /\ costmap' = [costmap EXCEPT
                                                !.grid = MarkPathFree(grid1, path)]
                                         /\ result' = path
                                         /\ pc' = "done"
                                ELSE /\ costmap' = [costmap EXCEPT !.grid = grid1]
                                     /\ result' = result
                                     /\ pc' = "hang"
                    ELSE /\ tree' = tree1
                         /\ tree_keys' = keys1
                         /\ costmap' = [costmap EXCEPT !.grid = grid1]
                         /\ iter' = iter + 1
                         /\ UNCHANGED <<pc, result>>
           ELSE /\ iter' = iter + 1
                /\ UNCHANGED <<costmap, tree, tree_keys, pc, result>>
  /\ UNCHANGED attempt
  /\ HeapUnused
  /\ SearchUnchanged

(* The iteration budget of an attempt is used up: clean up, then the next   *)
(* attempt with a new tree, or "no path" after the last one.                *)
RRTRetry ==
  /\ pc = "rrt"
  /\ iter = MaxIter
  /\ costmap' = [costmap EXCEPT !.grid = ResetVisited(costmap.grid)]
  /\ attempt' = attempt + 1
  /\ IF attempt + 1 < MaxAttempts
     THEN /\ tree' = (start :> None)
          /\ tree_keys' = <<start>>
          /\ iter' = 0
          /\ UNCHANGED <<pc, result>>
     ELSE /\ result' = None
          /\ pc' = "done"
          /\ UNCHANGED <<tree, tree_keys, iter>>
  /\ HeapUnused
  /\ SearchUnchanged

----------------------------------------------------------------------------

Next ==
  \/ AStarPlan
  \/ AStarStep
  \/ AStarExhausted
  \/ DijkstraPlan
  \/ DijkstraStep
  \/ DijkstraExhausted
  \/ RRTPlan
  \/ RRTIter
  \/ RRTRetry

Spec == Init /\ [][Next]_vars

(* The calls on an A* or a Dijkstra planner alone. A plan() call runs to    *)
(* completion on the one thread there is: whenever a step of it is          *)
(* possible, a step is taken.                                               *)
SearchInit == Init /\ planner \in {"AStar", "Dijkstra"}

SearchNext ==
  \/ AStarPlan
  \/ AStarStep
  \/ AStarExhausted
  \/ DijkstraPlan
  \/ DijkstraStep
  \/ DijkstraExhausted

SearchSpec == SearchInit /\ [][SearchNext]_vars /\ WF_vars(SearchNext)

----------------------------------------------------------------------------
(* A* and Dijkstra on the costmaps two cells wide and CorridorHeight high   *)
(* with at most MaxCorridorObstacles obstacles: long enough for a route     *)
(* around an obstacle that is two steps longer than the direct one.         *)

CorridorCostmaps ==
  {ToggleAll(NewCostmap(2, CorridorHeight), obs) :
     obs \in {o \in SUBSET Cells(2, CorridorHeight) :
                Cardinality(o) <= MaxCorridorObstacles}}

CorridorInit ==
  /\ costmap \in CorridorCostmaps
  /\ \E a \in PlanArgs(costmap) : start = a[1] /\ goal = a[2]
  /\ planner \in {"AStar", "Dijkstra"}
  /\ step_size = 0
  /\ pc = "idle"
  /\ open_set = {}
  /\ came_from = <<>>
  /\ gscore = <<>>
  /\ tree = <<>>
  /\ tree_keys = <<>>
  /\ attempt = 0
  /\ iter = 0
  /\ result = None
  /\ grid0 = costmap.grid
  /\ closed_set = {}
  /\ map_file = NoFile
  /\ history = <<>>
  /\ last = NoOp
  /\ before = costmap
  /\ mode = "start"
  /\ mouse_pressed = FALSE
  /\ current_drag_cells = {}
  /\ drag_toggles = <<>>

CorridorSpec == CorridorInit /\ [][SearchNext]_vars

----------------------------------------------------------------------------
(* Planner.a_star of src/planner/run_planner.py, the standalone A* on the   *)
(* same Costmap class.                                                      *)

PlannerGetNeighbors(cm, node) ==
  LET cand == [i \in 1 .. 4 |-> <<node[1] + Dirs[i][1], node[2] + Dirs[i][2]>>]
      Valid(n) == IsWithinBounds(cm, n[1], n[2]) /\ IsFree(cm, n[1], n[2])
  IN  SelectSeq(cand, Valid)

(* The loop over the neighbours of current, those in closed_set skipped.    *)
RECURSIVE PlannerRelax(_, _, _, _, _)
PlannerRelax(nbrs, current, g, closed, st) ==
  IF nbrs = <<>> THEN st
  ELSE LET neighbor == Head(nbrs)
           tentative_g_score == st.gscore[current] + 1
       IN  PlannerRelax(Tail(nbrs), current, g, closed,
             IF neighbor \in closed THEN st
             ELSE IF neighbor \notin DOMAIN st.gscore
                     \/ tentative_g_score < st.gscore[neighbor]
                  THEN [came_from |-> Put(st.came_from, neighbor, current),
                        gscore |-> Put(st.gscore, neighbor, tentative_g_score),
                        open_set |-> st.open_set \cup
                          {<<tentative_g_score + Heuristic(neighbor, g), neighbor>>}]
                  ELSE st)

PlannerReconstructPath(cf, current) == CameFromWalk(cf, current)

LegacyInit ==
  /\ InitCall
  /\ planner = "Planner"
  /\ step_size = 0
  /\ pc = "idle"
  /\ open_set = {}
  /\ came_from = <<>>
  /\ gscore = <<>>
  /\ tree = <<>>
  /\ tree_keys = <<>>
  /\ attempt = 0
  /\ iter = 0
  /\ result = None
  /\ grid0 = costmap.grid
  /\ closed_set = {}
  /\ map_file = NoFile
  /\ history = <<>>
  /\ last = NoOp
  /\ before = costmap
  /\ mode = "start"
  /\ mouse_pressed = FALSE
  /\ current_drag_cells = {}
  /\ drag_toggles = <<>>

LegacyUnchanged ==
  /\ UNCHANGED <<planner, step_size, start, goal, grid0>>
  /\ UNCHANGED <<map_file, history, last, before, mode>>
  /\ BuilderUnused
  /\ RRTUnused

PlannerAStar ==
  /\ pc = "idle"
  /\ planner = "Planner"
  /\ open_set' = {<<0, start>>}
  /\ came_from' = <<>>
  /\ gscore' = (start :> 0)
  /\ closed_set' = {}
  /\ pc' = "a_star"
  /\ LegacyUnchanged
  /\ UNCHANGED <<costmap, result>>

PlannerAStarStep ==
  /\ pc = "a_star"
  /\ open_set # {}
  /\ LET top == HeapTop(open_set)
         current == top[2]
         popped == open_set \ {top}
     IN  IF current = goal
         THEN /\ open_set' = popped
              /\ IF CameFromEnds(came_from, current, Cardinality(DOMAIN came_from))
                 THEN /\ result' = PlannerReconstructPath(came_from, current)
                      /\ pc' = "done"
                 ELSE /\ result' = result
                      /\ pc' = "hang"
              /\ UNCHANGED <<costmap, came_from, gscore, closed_set>>
         ELSE LET closed == closed_set \cup {current}
                  cm == [costmap EXCEPT !.grid = SetCell(costmap.grid, current, VISITED)]
                  st == PlannerRelax(PlannerGetNeighbors(cm, current), current, goal,
                          closed,
                          [came_from |-> came_from, gscore |-> gscore,
                           open_set |-> popped])
              IN  /\ closed_set' = closed
                  /\ costmap' = cm
                  /\ came_from' = st.came_from
                  /\ gscore' = st.gscore
                  /\ open_set' = st.open_set
                  /\ UNCHANGED <<pc, result>>
  /\ LegacyUnchanged

PlannerAStarExhausted ==
  /\ pc = "a_star"
  /\ open_set = {}
  /\ result' = None
  /\ pc' = "done"
  /\ LegacyUnchanged
  /\ UNCHANGED <<costmap, open_set, came_from, gscore, closed_set>>

LegacyNext ==
  \/ PlannerAStar
  \/ PlannerAStarStep
  \/ PlannerAStarExhausted

LegacySpec == LegacyInit /\ [][LegacyNext]_vars

----------------------------------------------------------------------------
(* One call of a Costmap operation by a client, on a costmap that earlier   *)
(* calls have left: cells UNKNOWN, OBSTACLE, VISITED (explored by a plan()  *)
(* call) or FREE (on a path RRT returned), then up to MaxOps calls of        *)
(* toggle_obstacle, set_start and set_goal.                                 *)

ApiXs(cm) == -MaxOutside .. cm.width - 1 + MaxOutside
ApiYs(cm) == -MaxOutside .. cm.height - 1 + MaxOutside

UsedCostmaps(w, h) ==
  {[NewCostmap(w, h) EXCEPT !.grid = g] :
     g \in [Cells(w, h) -> {UNKNOWN, OBSTACLE, VISITED, FREE}]}

RECURSIVE AfterOps(_, _)
AfterOps(cms, n) ==
  IF n = 0 THEN cms
  ELSE AfterOps(cms \cup UNION {{ToggleObstacle(cm, c[1], c[2]),
                                 SetStart(cm, c[1], c[2]),
                                 SetGoal(cm, c[1], c[2])} :
                                   <<cm, c>> \in {<<m, d>> \in cms \X Cells(MaxApiCells, MaxApiCells) :
                                                   d \in DOMAIN m.grid}},
                n - 1)

CostmapInit ==
  /\ \E w \in 1 .. MaxWidth, h \in 1 .. MaxHeight :
       /\ w * h <= MaxApiCells
       /\ costmap \in AfterOps(UsedCostmaps(w, h), MaxOps)
  /\ planner = "AStar"
  /\ step_size = 0
  /\ start = None
  /\ goal = None
  /\ pc = "ready"
  /\ open_set = {}
  /\ came_from = <<>>
  /\ gscore = <<>>
  /\ tree = <<>>
  /\ tree_keys = <<>>
  /\ attempt = 0
  /\ iter = 0
  /\ result = None
  /\ grid0 = costmap.grid
  /\ closed_set = {}
  /\ map_file = NoFile
  /\ history = <<>>
  /\ last = NoOp
  /\ before = costmap
  /\ mode = "start"
  /\ mouse_pressed = FALSE
  /\ current_drag_cells = {}
  /\ drag_toggles = <<>>

CostmapUnchanged ==
  /\ UNCHANGED <<planner, step_size, start, goal, result, grid0>>
  /\ UNCHANGED <<closed_set, map_file, history, mode>>
  /\ BuilderUnused
  /\ HeapUnused
  /\ RRTUnused

(* The call op(x, y) returns ret and leaves the costmap cm. *)
Called(op, x, y, ret, cm) ==
  /\ pc = "ready"
  /\ pc' = "called"
  /\ before' = costmap
  /\ last' = [op |-> op, x |-> x, y |-> y, ret |-> ret]
  /\ costmap' = cm
  /\ CostmapUnchanged

ToggleObstacleOp(x, y) ==
  Called("toggle_obstacle", x, y, "None", ToggleObstacle(costmap, x, y))

SetStartOp(x, y) == Called("set_start", x, y, "None", SetStart(costmap, x, y))

SetGoalOp(x, y) == Called("set_goal", x, y, "None", SetGoal(costmap, x, y))

ResetOp == Called("reset", 0, 0, "None", Reset(costmap))

IsWithinBoundsOp(x, y) ==
  Called("is_within_bounds", x, y, Bool(IsWithinBounds(costmap, x, y)), costmap)

IsFreeOp(x, y) == Called("is_free", x, y, IsFreeCall(costmap, x, y), costmap)

CostmapNext ==
  \/ \E x \in ApiXs(costmap), y \in ApiYs(costmap) : ToggleObstacleOp(x, y)
  \/ \E x \in ApiXs(costmap), y \in ApiYs(costmap) : SetStartOp(x, y)
  \/ \E x \in ApiXs(costmap), y \in ApiYs(costmap) : SetGoalOp(x, y)
  \/ ResetOp
  \/ \E x \in ApiXs(costmap), y \in ApiYs(costmap) : IsWithinBoundsOp(x, y)
  \/ \E x \in ApiXs(costmap), y \in ApiYs(costmap) : IsFreeOp(x, y)

CostmapSpec == CostmapInit /\ [][CostmapNext]_vars

----------------------------------------------------------------------------
(* A PathVisualizer session with A* or Dijkstra: main.py loads the map file *)
(* into a new costmap, the user sets start and goal, then presses '3' (run  *)
(* the planner) and 'c' (reload the map) in any order.                      *)

(* The rasters CostmapBuilder.save_map writes, not larger than the costmap. *)
MapFiles(w, h) ==
  {NoFile} \cup
  UNION {{[readable |-> TRUE, width |-> fw, height |-> fh, px |-> px] :
            px \in [Cells(fw, fh) -> {UNKNOWN, OBSTACLE}]} :
           <<fw, fh>> \in (1 .. w) \X (1 .. h)}

SessionInit ==
  /\ \E w \in 1 .. MaxWidth, h \in 1 .. MaxHeight :
       /\ w * h <= MaxCells
       /\ map_file \in MapFiles(w, h)
       /\ costmap \in WithMarkers(LoadMap(NewCostmap(w, h), map_file))
  /\ costmap.start # None
  /\ costmap.goal # None
  /\ planner \in {"AStar", "Dijkstra"}
  /\ step_size = 0
  /\ start = None
  /\ goal = None
  /\ pc = "ready"
  /\ open_set = {}
  /\ came_from = <<>>
  /\ gscore = <<>>
  /\ tree = <<>>
  /\ tree_keys = <<>>
  /\ attempt = 0
  /\ iter = 0
  /\ result = None
  /\ grid0 = costmap.grid
  /\ closed_set = {}
  /\ history = <<>>
  /\ last = NoOp
  /\ before = costmap
  /\ mode = "start"
  /\ mouse_pressed = FALSE
  /\ current_drag_cells = {}
  /\ drag_toggles = <<>>

(* Mutant: only costmap.start is tested. *)
RunPlannerStartOnly ==
  /\ pc = "ready"
  /\ Len(history) < MaxCalls
  /\ costmap.start # None
  /\ start' = costmap.start
  /\ goal' = costmap.goal
  /\ pc' = "idle"
  /\ UNCHANGED <<costmap, planner, step_size, result, grid0>>
  /\ HeapUnused
  /\ RRTUnused
  /\ SessionUnchanged

(* run_planner up to the call of plan(self.costmap.start, self.costmap.goal) *)
RunPlanner ==
  /\ pc = "ready"
  /\ Len(history) < MaxCalls
  /\ costmap.start # None
  /\ costmap.goal # None
  /\ start' = costmap.start
  /\ goal' = costmap.goal
  /\ pc' = "idle"
  /\ UNCHANGED <<costmap, planner, step_size, result, grid0>>
  /\ HeapUnused
  /\ RRTUnused
  /\ SessionUnchanged

(* "Update the costmap so that path cells become FREE" *)
ShowPath(grid, path) ==
  [c \in DOMAIN grid |->
     IF (\E i \in 1 .. Len(path) : path[i] = c) /\ grid[c] \notin {START, GOAL}
     THEN FREE ELSE grid[c]]

(* run_planner after plan() has returned *)
RunPlannerReturn ==
  /\ pc = "done"
  /\ costmap' = IF result # None
                THEN [costmap EXCEPT !.grid = ShowPath(costmap.grid, result)]
                ELSE costmap
  /\ history' = Append(history, [grid0 |-> grid0, start |-> start,
                                 goal |-> goal, result |-> result])
  /\ last' = [op |-> "run_planner", x |-> 0, y |-> 0, ret |-> "None"]
  /\ pc' = "ready"
  /\ UNCHANGED <<planner, step_size, start, goal, result, grid0>>
  /\ UNCHANGED <<closed_set, map_file, before, mode>>
  /\ BuilderUnused
  /\ HeapUnused
  /\ RRTUnused

(* reset_map: self.costmap.reset_path(self.map_file) *)
ResetMap ==
  /\ pc = "ready"
  /\ costmap' = ResetPath(costmap, map_file)
  /\ before' = costmap
  /\ last' = [op |-> "reset_path", x |-> 0, y |-> 0, ret |-> "None"]
  /\ UNCHANGED <<planner, step_size, start, goal, pc, result, grid0>>
  /\ UNCHANGED <<closed_set, map_file, history, mode>>
  /\ BuilderUnused
  /\ HeapUnused
  /\ RRTUnused

SessionNext ==
  \/ RunPlanner
  \/ AStarPlan
  \/ AStarStep
  \/ AStarExhausted
  \/ DijkstraPlan
  \/ DijkstraStep
  \/ DijkstraExhausted
  \/ RunPlannerReturn
  \/ ResetMap

SessionSpec == SessionInit /\ [][SessionNext]_vars

----------------------------------------------------------------------------
(* The events of a PathVisualizer window: main.py loads the map file into a *)
(* new costmap and shows it; the user clicks, presses '1', '2' (mode), 'p', *)
(* 'd', 'r' (planner), '3' (run) and 'c' (reload) in any order. What is     *)
(* drawn (self.path, the menu) is left out.                                 *)

RRTDefaultStepSize == 5

VisualizerInit ==
  /\ \E w \in 1 .. MaxWidth, h \in 1 .. MaxHeight :
       /\ w * h <= MaxApiCells
       /\ map_file \in MapFiles(w, h)
       /\ costmap = LoadMap(NewCostmap(w, h), map_file)
  /\ planner = "AStar"
  /\ step_size = 0
  /\ mode = "start"
  /\ mouse_pressed = FALSE
  /\ current_drag_cells = {}
  /\ drag_toggles = <<>>
  /\ start = None
  /\ goal = None
  /\ pc = "ready"
  /\ open_set = {}
  /\ came_from = <<>>
  /\ gscore = <<>>
  /\ tree = <<>>
  /\ tree_keys = <<>>
  /\ attempt = 0
  /\ iter = 0
  /\ result = None
  /\ grid0 = costmap.grid
  /\ closed_set = {}
  /\ history = <<>>
  /\ last = NoOp
  /\ before = costmap

VisualizerUnchanged ==
  /\ UNCHANGED <<start, goal, pc, result, closed_set, map_file, history>>
  /\ UNCHANGED <<last, before>>
  /\ BuilderUnused
  /\ HeapUnused
  /\ RRTUnused

(* onclick at the cell (x, y), in the map or beside it *)
OnClick(x, y) ==
  /\ pc = "ready"
  /\ costmap' = IF ~IsWithinBounds(costmap, x, y) THEN costmap
                ELSE IF mode = "start" THEN SetStart(costmap, x, y)
                ELSE SetGoal(costmap, x, y)
  /\ grid0' = costmap'.grid
  /\ UNCHANGED <<planner, step_size, mode>>
  /\ VisualizerUnchanged

(* onkey '1', '2' *)
SetMode(m) ==
  /\ pc = "ready"
  /\ mode' = m
  /\ UNCHANGED <<costmap, planner, step_size, grid0>>
  /\ VisualizerUnchanged

(* onkey 'p', 'd', 'r' *)
SwitchPlanner(p) ==
  /\ pc = "ready"
  /\ planner' = p
  /\ step_size' = IF p = "RRT" THEN RRTDefaultStepSize ELSE 0
  /\ UNCHANGED <<costmap, mode, grid0>>
  /\ VisualizerUnchanged

(* run_planner after plan() has returned; the locals of plan() are gone. *)
(* While no call is running grid0 is the grid.                            *)
VisualizerReturn ==
  /\ pc = "done"
  /\ costmap' = IF result # None
                THEN [costmap EXCEPT !.grid = ShowPath(costmap.grid, result)]
                ELSE costmap
  /\ grid0' = costmap'.grid
  /\ pc' = "ready"
  /\ start' = None
  /\ goal' = None
  /\ open_set' = {}
  /\ came_from' = <<>>
  /\ gscore' = <<>>
  /\ tree' = <<>>
  /\ tree_keys' = <<>>
  /\ attempt' = 0
  /\ iter' = 0
  /\ result' = None
  /\ UNCHANGED <<planner, step_size>>
  /\ SessionUnchanged

(* reset_map: self.costmap.reset_path(self.map_file) *)
VisualizerResetMap ==
  /\ pc = "ready"
  /\ costmap' = ResetPath(costmap, map_file)
  /\ grid0' = costmap'.grid
  /\ UNCHANGED <<planner, step_size, mode>>
  /\ VisualizerUnchanged

VisualizerNext ==
  \/ \E x \in -1 .. costmap.width, y \in -1 .. costmap.height : OnClick(x, y)
  \/ \E m \in {"start", "goal"} : SetMode(m)
  \/ \E p \in Planners : SwitchPlanner(p)
  \/ RunPlanner
  \/ AStarPlan
  \/ AStarStep
  \/ AStarExhausted
  \/ DijkstraPlan
  \/ DijkstraStep
  \/ DijkstraExhausted
  \/ RRTPlan
  \/ RRTIter
  \/ RRTRetry
  \/ VisualizerReturn
  \/ VisualizerResetMap

VisualizerSpec == VisualizerInit /\ [][VisualizerNext]_vars

----------------------------------------------------------------------------
(* A client of a new Costmap that calls toggle_obstacle, set_start,         *)
(* set_goal, reset and the plan() of a planner built on the costmap, in any *)
(* order; no map is loaded. While no plan() call is running grid0 is the    *)
(* grid.                                                                    *)

ClientInit ==
  /\ \E w \in 1 .. MaxWidth, h \in 1 .. MaxHeight :
       /\ w * h <= MaxApiCells
       /\ costmap = NewCostmap(w, h)
  /\ planner = "AStar"
  /\ step_size = 0
  /\ mode = "start"
  /\ mouse_pressed = FALSE
  /\ current_drag_cells = {}
  /\ drag_toggles = <<>>
  /\ start = None
  /\ goal = None
  /\ pc = "ready"
  /\ open_set = {}
  /\ came_from = <<>>
  /\ gscore = <<>>
  /\ tree = <<>>
  /\ tree_keys = <<>>
  /\ attempt = 0
  /\ iter = 0
  /\ result = None
  /\ grid0 = costmap.grid
  /\ closed_set = {}
  /\ map_file = NoFile
  /\ history = <<>>
  /\ last = NoOp
  /\ before = costmap

(* A Costmap operation is called and leaves the costmap cm. *)
ClientCall(cm) ==
  /\ pc = "ready"
  /\ costmap' = cm
  /\ grid0' = cm.grid
  /\ UNCHANGED <<planner, step_size, start, goal, pc, result>>
  /\ HeapUnused
  /\ RRTUnused
  /\ SessionUnchanged

ClientToggleObstacle(x, y) == ClientCall(ToggleObstacle(costmap, x, y))

ClientSetStart(x, y) == ClientCall(SetStart(costmap, x, y))

ClientSetGoal(x, y) == ClientCall(SetGoal(costmap, x, y))

ClientReset == ClientCall(Reset(costmap))

(* A planner p is built on the costmap and its plan() is called. *)
ClientPlan(p, s) ==
  /\ pc = "ready"
  /\ planner' = p
  /\ step_size' = s
  /\ \E a \in PlanArgs(costmap) : start' = a[1] /\ goal' = a[2]
  /\ pc' = "idle"
  /\ UNCHANGED <<costmap, result, grid0>>
  /\ HeapUnused
  /\ RRTUnused
  /\ SessionUnchanged

(* plan() has returned; its locals and the planner are gone. *)
ClientReturn ==
  /\ pc = "done"
  /\ pc' = "ready"
  /\ planner' = "AStar"
  /\ step_size' = 0
  /\ grid0' = costmap.grid
  /\ start' = None
  /\ goal' = None
  /\ result' = None
  /\ open_set' = {}
  /\ came_from' = <<>>
  /\ gscore' = <<>>
  /\ tree' = <<>>
  /\ tree_keys' = <<>>
  /\ attempt' = 0
  /\ iter' = 0
  /\ UNCHANGED costmap
  /\ SessionUnchanged

ClientNext ==
  \/ \E x \in ApiXs(costmap), y \in ApiYs(costmap) : ClientToggleObstacle(x, y)
  \/ \E x \in ApiXs(costmap), y \in ApiYs(costmap) : ClientSetStart(x, y)
  \/ \E x \in ApiXs(costmap), y \in ApiYs(costmap) : ClientSetGoal(x, y)
  \/ ClientReset
  \/ \E p \in Planners :
       \E s \in IF p = "RRT" THEN 1 .. MaxStepSize ELSE {0} : ClientPlan(p, s)
  \/ AStarPlan
  \/ AStarStep
  \/ AStarExhausted
  \/ DijkstraPlan
  \/ DijkstraStep
  \/ DijkstraExhausted
  \/ RRTPlan
  \/ RRTIter
  \/ RRTRetry
  \/ ClientReturn

ClientSpec == ClientInit /\ [][ClientNext]_vars

----------------------------------------------------------------------------
(* CostmapBuilder: main.py makes a new costmap and shows it; the user       *)
(* presses and releases mouse buttons, moves the mouse and presses 'r'      *)
(* (reset). An event is inside the axes (inaxes) or not; the rounded        *)
(* position (x, y) of an event inside the axes can lie beside the grid.     *)
(* Saving ('1') changes nothing in the builder or the costmap.              *)

NoToggles(cm) == [c \in DOMAIN cm.grid |-> 0]

BuilderInit ==
  /\ \E w \in 1 .. MaxWidth, h \in 1 .. MaxHeight :
       /\ w * h <= MaxBuilderCells
       /\ costmap = NewCostmap(w, h)
  /\ mouse_pressed = FALSE
  /\ current_drag_cells = {}
  /\ drag_toggles = NoToggles(costmap)
  /\ planner = "AStar"
  /\ step_size = 0
  /\ mode = "start"
  /\ start = None
  /\ goal = None
  /\ pc = "ready"
  /\ open_set = {}
  /\ came_from = <<>>
  /\ gscore = <<>>
  /\ tree = <<>>
  /\ tree_keys = <<>>
  /\ attempt = 0
  /\ iter = 0
  /\ result = None
  /\ grid0 = costmap.grid
  /\ closed_set = {}
  /\ map_file = NoFile
  /\ history = <<>>
  /\ last = NoOp
  /\ before = costmap

BuilderUnchanged ==
  /\ UNCHANGED <<planner, step_size, start, goal, pc, result, grid0>>
  /\ UNCHANGED <<closed_set, history, mode>>
  /\ HeapUnused
  /\ RRTUnused

(* The handler op was called; the position of the event is not recorded. *)
Handled(op) ==
  /\ last' = [op |-> op, x |-> 0, y |-> 0, ret |-> "None"]
  /\ before' = costmap

OnButtonPress(inaxes, x, y) ==
  /\ Handled("on_button_press")
  /\ IF ~inaxes
     THEN UNCHANGED <<costmap, mouse_pressed, current_drag_cells, drag_toggles>>
     ELSE LET began == IF mouse_pressed THEN drag_toggles ELSE NoToggles(costmap)
          IN  /\ mouse_pressed' = TRUE
              /\ IF IsWithinBounds(costmap, x, y)
                 THEN /\ began[<<x, y>>] < MaxDragToggles
                      /\ costmap' = ToggleObstacle(costmap, x, y)
                      /\ current_drag_cells' = {<<x, y>>}
                      /\ drag_toggles' = [began EXCEPT ![<<x, y>>] = @ + 1]
                 ELSE /\ current_drag_cells' = {}
                      /\ drag_toggles' = began
                      /\ UNCHANGED costmap
  /\ UNCHANGED map_file
  /\ BuilderUnchanged

OnButtonRelease ==
  /\ Handled("on_button_release")
  /\ mouse_pressed' = FALSE
  /\ UNCHANGED <<costmap, current_drag_cells, drag_toggles, map_file>>
  /\ BuilderUnchanged

OnMotion(inaxes, x, y) ==
  /\ Handled("on_motion")
  /\ IF /\ mouse_pressed
        /\ inaxes
        /\ <<x, y>> \notin current_drag_cells
        /\ IsWithinBounds(costmap, x, y)
     THEN /\ drag_toggles[<<x, y>>] < MaxDragToggles
          /\ costmap' = ToggleObstacle(costmap, x, y)
          /\ current_drag_cells' = current_drag_cells \cup {<<x, y>>}
          /\ drag_toggles' = [drag_toggles EXCEPT ![<<x, y>>] = @ + 1]
     ELSE UNCHANGED <<costmap, current_drag_cells, drag_toggles>>
  /\ UNCHANGED <<mouse_pressed, map_file>>
  /\ BuilderUnchanged

(* on_key 'r' *)
BuilderReset ==
  /\ Handled("reset")
  /\ costmap' = Reset(costmap)
  /\ UNCHANGED <<mouse_pressed, current_drag_cells, drag_toggles, map_file>>
  /\ BuilderUnchanged

BuilderNext ==
  \/ \E inaxes \in BOOLEAN, x \in -1 .. costmap.width, y \in -1 .. costmap.height :
       OnButtonPress(inaxes, x, y)
  \/ OnButtonRelease
  \/ \E inaxes \in BOOLEAN, x \in -1 .. costmap.width, y \in -1 .. costmap.height :
       OnMotion(inaxes, x, y)
  \/ BuilderReset

BuilderSpec == BuilderInit /\ [][BuilderNext]_vars

----------------------------------------------------------------------------
(* What the properties speak of *)

Returned == pc = "done"
ReturnedPath == pc = "done" /\ result # None
GraphSearch == planner \in {"AStar", "Dijkstra"}

Adjacent(a, b) == Abs(a[1] - b[1]) + Abs(a[2] - b[2]) = 1

(* The least number of unit steps of a route from the frontier's origin to *)
(* g through the cells of free, breadth first; -1 when there is no route.  *)
RECURSIVE RouteSteps(_, _, _, _, _)
RouteSteps(free, seen, frontier, g, d) ==
  IF g \in frontier THEN d
  ELSE IF frontier = {} THEN -1
  ELSE LET next == {c \in free \ seen : \E f \in frontier : Adjacent(c, f)}
       IN  RouteSteps(free, seen \cup next, next, g, d + 1)

ShortestRoute(grid, s, g) ==
  RouteSteps({c \in DOMAIN grid : grid[c] # OBSTACLE}, {s}, {s}, g, 0)

ObstacleCount(grid) == Cardinality({c \in DOMAIN grid : grid[c] = OBSTACLE})

OnPath(path, c) == \E i \in 1 .. Len(path) : path[i] = c

----------------------------------------------------------------------------
(* C1: whenever plan(start, goal) of any of the three planners returns a   *)
(* path, the path's first node is start and its last node is goal.         *)
C1_PathEndpoints ==
  ReturnedPath => result[1] = start /\ result[Len(result)] = goal

C1_Witness ==
  /\ ReturnedPath
  /\ planner = "RRT"
  /\ Len(result) >= 3
  /\ result[1] = start
  /\ result[Len(result)] = goal

(* C2: when the goal is reachable, the path A* returns and the path        *)
(* Dijkstra returns both have the least number of steps of any 4-connected *)
(* obstacle-free route from start to goal, hence the same length.          *)
C2_OptimalLength ==
  (Returned /\ GraphSearch /\ ShortestRoute(grid0, start, goal) >= 0)
    => /\ result # None
       /\ Len(result) - 1 = ShortestRoute(grid0, start, goal)

(* a detour: the shortest route is longer than the Manhattan distance *)
C2_Witness ==
  /\ ReturnedPath
  /\ planner = "AStar"
  /\ Len(result) - 1 = ShortestRoute(grid0, start, goal)
  /\ Len(result) - 1 > Heuristic(start, goal)

(* C3: A* and Dijkstra always terminate, and they return "no path" exactly *)
(* when no route of 4-connected in-bounds non-obstacle cells leads from    *)
(* start to goal.                                                          *)
C3_NoPathIffNoRoute ==
  /\ [](GraphSearch => pc # "hang")
  /\ []((Returned /\ GraphSearch)
          => (result = None <=> ShortestRoute(grid0, start, goal) < 0))
  /\ (GraphSearch => <>Returned)

C3_Witness ==
  /\ Returned
  /\ planner = "Dijkstra"
  /\ result = None
  /\ ShortestRoute(grid0, start, goal) < 0

(* C4: in a path returned by A* or Dijkstra consecutive nodes differ by    *)
(* one unit step along one axis, and no node occurs twice.                 *)
C4_UnitStepsNoRepeat ==
  (ReturnedPath /\ GraphSearch)
    => /\ \A i \in 1 .. Len(result) - 1 : Adjacent(result[i], result[i + 1])
       /\ \A i, j \in 1 .. Len(result) : result[i] = result[j] => i = j

C4_Witness ==
  /\ ReturnedPath
  /\ planner = "Dijkstra"
  /\ Len(result) >= 4
  /\ \A i \in 1 .. Len(result) - 1 : Adjacent(result[i], result[i + 1])

C6_StepWithinStepSize ==
  (ReturnedPath /\ planner = "RRT")
    => \A i \in 1 .. Len(result) - 1 :
         DistanceSq(result[i], result[i + 1]) <= step_size * step_size

(* C7: plan(start, goal) with start = goal returns the one-node path       *)
(* [start], for each of the three planners.                                *)
C7_StartIsGoal ==
  (start = goal /\ pc \in {"done", "hang"})
    => pc = "done" /\ result = <<start>>

FullWallBetween(cm, grid, s, g) ==
  \E x \in 0 .. cm.width - 1 :
    /\ \A y \in 0 .. cm.height - 1 : grid[<<x, y>>] = OBSTACLE
    /\ (s[1] < x /\ x < g[1]) \/ (g[1] < x /\ x < s[1])

(* C9: with a full obstacle wall between start and goal every planner      *)
(* returns "no path", RRT for every sampling sequence.                     *)
C9_WallMeansNoPath ==
  (Returned /\ FullWallBetween(costmap, grid0, start, goal)) => result = None

InScenario ==
  /\ costmap.width = 5
  /\ costmap.height = 5
  /\ start = ScenarioStart
  /\ goal = ScenarioGoal
  /\ \A c \in DOMAIN grid0 :
       (grid0[c] = OBSTACLE) = (c \in {<<2, 0>>, <<2, 1>>, <<2, 2>>, <<2, 3>>})

(* C10 as stated: on the 5x5 scenario A* and Dijkstra return a path of     *)
(* length 7 through (2,4), length counted in nodes or in steps.            *)
C10_AsStated ==
  (InScenario /\ Returned /\ GraphSearch)
    => /\ result # None
       /\ Len(result) = 7 \/ Len(result) - 1 = 7
       /\ OnPath(result, <<2, 4>>)

(* C10: on the 5x5 scenario A* and Dijkstra return a path of 13 nodes, 12  *)
(* unit steps, through (2,4).                                              *)
C10_ScenarioPath ==
  (InScenario /\ Returned /\ GraphSearch)
    => /\ result # None
       /\ Len(result) = 13
       /\ OnPath(result, <<2, 4>>)

C10_Witness ==
  /\ InScenario
  /\ ReturnedPath
  /\ planner = "AStar"
  /\ costmap.start = None
  /\ Len(result) = 13
  /\ result[7] = <<2, 4>>

NoVisited(grid) == \A c \in DOMAIN grid : grid[c] # VISITED

(* C11: every RRTPlanner.plan call runs to completion; the walk of the     *)
(* parent pointers from goal always reaches the root sentinel and stops.   *)
(* Stated for the calls with start # goal: C7 is about start = goal.       *)
C11_RRTCompletes == (planner = "RRT" /\ start # goal) => pc # "hang"

(* C13: a plan call of any planner writes nothing but VISITED: when it has *)
(* returned, every cell either holds the state it had when plan was called *)
(* or holds VISITED.                                                       *)
C13_OnlyVisitedWritten ==
  Returned => \A c \in DOMAIN costmap.grid :
                costmap.grid[c] = grid0[c] \/ costmap.grid[c] = VISITED

(* C20: when an attempt of RRTPlanner.plan has used up its iterations, the *)
(* next attempt starts with a tree of start alone and no VISITED cell, and *)
(* when plan returns "no path" the grid has no VISITED cell.               *)
C20_CleanupBetweenAttempts ==
  /\ (pc = "rrt" /\ attempt > 0 /\ iter = 0)
       => NoVisited(costmap.grid) /\ tree = (start :> None)
  /\ (planner = "RRT" /\ Returned /\ result = None) => NoVisited(costmap.grid)

(* the second attempt has marked a cell, and nothing is left of the first *)
C20_Witness ==
  /\ pc = "rrt"
  /\ attempt = 1
  /\ iter = 1
  /\ Cardinality(DOMAIN tree) = 2
  /\ Cardinality({c \in DOMAIN costmap.grid : costmap.grid[c] = VISITED}) = 1

(* C14: no search overwrites a cell that holds START or GOAL: the cells    *)
(* that held START or GOAL when the search was called hold the same state  *)
(* throughout and after it, for the three planners and Planner.a_star.     *)
C14_MarkersKept ==
  \A c \in DOMAIN costmap.grid :
    grid0[c] \in {START, GOAL} => costmap.grid[c] = grid0[c]

(* A Costmap operation has returned; c is the coordinate it was given. *)
OpReturned(ops) == pc = "called" /\ last.op \in ops
Inside(cm, c) == c \in DOMAIN cm.grid
MarkersOnGrid(cm) ==
  /\ cm.start # None => cm.grid[cm.start] = START
  /\ cm.goal # None => cm.grid[cm.goal] = GOAL

(* C15: whenever start is set the cell at start holds START, and whenever  *)
(* goal is set the cell at goal holds GOAL; stated as what every Costmap   *)
(* operation called on such a costmap must leave.                          *)
C15_MarkersOnGrid ==
  (pc = "called" /\ MarkersOnGrid(before)) => MarkersOnGrid(costmap)

(* C16: set_start(x, y) and set_goal(x, y) change nothing when (x, y) is   *)
(* out of bounds or an OBSTACLE cell; otherwise the cell (x, y) holds the  *)
(* marker, the coordinate is recorded, and the only other cell that may    *)
(* change is the one at the previous coordinate, which becomes UNKNOWN.    *)
C16_SetMarker ==
  OpReturned({"set_start", "set_goal"}) =>
    LET c == <<last.x, last.y>>
        isStart == last.op = "set_start"
        marker == IF isStart THEN START ELSE GOAL
        old == IF isStart THEN before.start ELSE before.goal
        new == IF isStart THEN costmap.start ELSE costmap.goal
    IN  IF ~Inside(before, c) \/ before.grid[c] = OBSTACLE
        THEN costmap = before
        ELSE /\ costmap.grid[c] = marker
             /\ new = c
             /\ \A d \in DOMAIN before.grid \ {c} :
                  costmap.grid[d] # before.grid[d]
                    => d = old /\ costmap.grid[d] = UNKNOWN

(* set_start moved the marker: the old cell is UNKNOWN again *)
C16_Witness ==
  /\ OpReturned({"set_start"})
  /\ before.start # None
  /\ before.start # <<last.x, last.y>>
  /\ before.grid[before.start] = START
  /\ costmap.grid[before.start] = UNKNOWN
  /\ costmap.start = <<last.x, last.y>>
  /\ costmap.grid[costmap.start] = START
  /\ Cardinality(DOMAIN costmap.grid) = 3

C19_OutOfBoundsIgnored ==
  (/\ OpReturned({"toggle_obstacle", "set_start", "set_goal",
                  "is_within_bounds", "is_free"})
   /\ ~Inside(before, <<last.x, last.y>>))
    => /\ costmap = before
       /\ last.ret # "IndexError"
       /\ last.op \in {"is_within_bounds", "is_free"}
            => last.ret \in {"True", "False"}

Obstacles(grid) == {c \in DOMAIN grid : grid[c] = OBSTACLE}

(* C12: AStarPlanner.plan and DijkstraPlanner.plan are deterministic: a    *)
(* call made after reset_path returns the path the call before it          *)
(* returned, the obstacles, start and goal being the same.                 *)
C12_SamePathAgain ==
  (Returned /\ Len(history) >= 1 /\ last.op = "reset_path")
    => LET h == history[Len(history)]
       IN  (/\ h.start = start
            /\ h.goal = goal
            /\ Obstacles(h.grid0) = Obstacles(grid0))
             => result = h.result

(* the second call found the same path of three nodes or more on a grid    *)
(* that the reload had changed                                             *)
C12_Witness ==
  /\ Returned
  /\ Len(history) = 1
  /\ last.op = "reset_path"
  /\ history[1].start = start
  /\ history[1].goal = goal
  /\ result = history[1].result
  /\ Len(result) >= 3
  /\ before.grid # grid0

(* C18: after reset_path no cell is VISITED, every OBSTACLE cell is still  *)
(* OBSTACLE, and a start or goal that was set, its cell holding START or   *)
(* GOAL, is still set with its cell holding START or GOAL; also when       *)
(* reset_path follows a plan call.                                         *)
C18_ResetPathClears ==
  (pc = "ready" /\ last.op = "reset_path" /\ MarkersOnGrid(before))
    => /\ NoVisited(costmap.grid)
       /\ \A c \in DOMAIN before.grid :
            before.grid[c] = OBSTACLE => costmap.grid[c] = OBSTACLE
       /\ before.start # None
            => costmap.start = before.start /\ costmap.grid[costmap.start] = START
       /\ before.goal # None
            => costmap.goal = before.goal /\ costmap.grid[costmap.goal] = GOAL

(* The entries of the dict m are in m2 as they were. *)
EntriesKept(m, m2) == \A n \in DOMAIN m : n \in DOMAIN m2 /\ m2[n] = m[n]

(* C21: during one search the predecessor map is append-only: once a node   *)
(* has an entry in came_from (A*, Dijkstra) or in tree (RRT, within an      *)
(* attempt) no later step of the search overwrites that entry.              *)
C21_AppendOnly ==
  [][/\ pc \in {"astar", "dijkstra"} => EntriesKept(came_from, came_from')
     /\ (pc = "rrt" /\ attempt' = attempt) => EntriesKept(tree, tree')]_vars

(* C22: in a PathVisualizer window, whatever the clicks and keys, plan is   *)
(* invoked only with costmap.start and costmap.goal both set, and both are  *)
(* then cells inside the grid that do not hold OBSTACLE.                    *)
C22_PlanPrecondition ==
  pc = "idle"
    => /\ costmap.start # None
       /\ costmap.goal # None
       /\ start = costmap.start
       /\ goal = costmap.goal
       /\ Inside(costmap, start)
       /\ Inside(costmap, goal)
       /\ costmap.grid[start] # OBSTACLE
       /\ costmap.grid[goal] # OBSTACLE

(* after clicks in both modes and the key 'r', plan is about to be invoked  *)
(* on a map with an obstacle                                                *)
C22_Witness ==
  /\ pc = "idle"
  /\ planner = "RRT"
  /\ mode = "goal"
  /\ Obstacles(costmap.grid) # {}
  /\ start # goal

(* C23: in CostmapBuilder, between a button press inside the axes and the   *)
(* next button release each cell is toggled at most once, however many      *)
(* press and motion events land on it; and a motion event that comes while  *)
(* no button is pressed toggles nothing.                                    *)
C23_OneTogglePerDrag ==
  /\ \A c \in DOMAIN drag_toggles : drag_toggles[c] <= 1
  /\ (last.op = "on_motion" /\ ~mouse_pressed) => costmap = before

Holding(grid, v) == {c \in DOMAIN grid : grid[c] = v}

(* C24: after any sequence of toggle_obstacle, set_start, set_goal, reset   *)
(* and plan calls on a new Costmap, at most one cell holds START and at     *)
(* most one cell holds GOAL.                                                *)
C24_OneMarkerEach ==
  /\ Cardinality(Holding(costmap.grid, START)) <= 1
  /\ Cardinality(Holding(costmap.grid, GOAL)) <= 1

(* an RRT plan call has left a FREE cell between the two markers *)
C24_Witness ==
  /\ pc = "ready"
  /\ Holding(costmap.grid, FREE) # {}
  /\ Cardinality(Holding(costmap.grid, START)) = 1
  /\ Cardinality(Holding(costmap.grid, GOAL)) = 1

(* C25: throughout every RRT attempt the parent map is a tree rooted at     *)
(* start: tree[start] is None, no node is its own parent, and the walk      *)
(* along the parents from any node of the tree ends, also right after the   *)
(* goal edge tree[goal] = new_node is put in.                               *)
(* Stated for the calls with start # goal.                                  *)
C25_TreeRootedAtStart ==
  (planner = "RRT" /\ pc \in {"rrt", "done", "hang"} /\ start # goal)
    => /\ tree[start] = None
       /\ \A n \in DOMAIN tree :
            /\ tree[n] # n
            /\ TreeEnds(tree, n, Cardinality(DOMAIN tree))

(* C26: the path AStarPlanner.plan and DijkstraPlanner.plan return depends  *)
(* only on the grid size, the OBSTACLE cells, start and goal: a call        *)
(* returns what every earlier call with these the same returned, whatever   *)
(* UNKNOWN, FREE and stale VISITED cells the grids differ in, a path reset  *)
(* between them or not.                                                     *)
C26_PathIgnoresMarkings ==
  Returned
    => \A i \in 1 .. Len(history) :
         (/\ history[i].start = start
          /\ history[i].goal = goal
          /\ Obstacles(history[i].grid0) = Obstacles(grid0))
           => result = history[i].result

(* the second call, with no reset since the first, ran on a grid with a     *)
(* stale VISITED cell and found the same path of three nodes or more        *)
C26_Witness ==
  /\ Returned
  /\ Len(history) = 1
  /\ last.op = "run_planner"
  /\ Holding(grid0, VISITED) # {}
  /\ Holding(grid0, FREE) # {}
  /\ history[1].start = start
  /\ history[1].goal = goal
  /\ result = history[1].result
  /\ Len(result) >= 3

(* C27: run on the same grid with the same start and goal, every cell       *)
(* AStarPlanner.plan marks VISITED is marked VISITED by DijkstraPlanner.plan *)
(* too.                                                                     *)
C27_AStarVisitsNoMore ==
  (planner = "AStar" /\ Returned)
    => Holding(costmap.grid, VISITED)
         \subseteq Holding(DijkstraGrid([costmap EXCEPT !.grid = grid0], start, goal),
                           VISITED)

(* A* found a path around an obstacle and left a VISITED cell; Dijkstra     *)
(* marks more cells than A*                                                 *)
C27_Witness ==
  /\ planner = "AStar"
  /\ ReturnedPath
  /\ Obstacles(grid0) # {}
  /\ Holding(costmap.grid, VISITED) # {}
  /\ Holding(costmap.grid, VISITED)
       # Holding(DijkstraGrid([costmap EXCEPT !.grid = grid0], start, goal), VISITED)

====
